---- MODULE Spec2Model ----
(***************************************************************************)
(* Model of autolysis.py: a one-shot pipeline                              *)
(*   main -> load_data -> analyze_data -> makedirs ->                      *)
(*   generate_visualizations -> get_openai_response -> generate_report.    *)
(* The state is the position of main, the process inputs (argv, the        *)
(* environment, the dataset file), the output folder on disk, the retry    *)
(* state of chat() and what the process printed and how it ended.          *)
(* Successive runs of the program share the disk.                          *)
(***************************************************************************)
EXTENDS Integers, Sequences, FiniteSets, TLC

\* ---------------------------------------------------------------- bounds
\* number of successive runs of the program over the same output folder
MaxRuns == 2

\* ------------------------------------------------------ program constants
\* stop_after_attempt(3)
MaxAttempts == 3
\* wait_fixed(2)
WaitFixed == 2
\* len(sys.argv) != 2
ExpectedArgc == 2
\* response.status_code == 200
StatusOK == 200

\* ------------------------------------------------------------ input data
\* A column of the loaded table: its name and whether pandas inferred a
\* numeric dtype for it.
Col(n, num) == [name |-> n, numeric |-> num]

ColumnUniverse ==
    { Col("id", TRUE), Col("Average_Rating", FALSE),
      Col("average_rating", TRUE), Col("average_rating", FALSE) }

\* A dataset is a non-empty set of columns with distinct names.
Datasets ==
    { d \in SUBSET ColumnUniverse :
        /\ d # {}
        /\ \A c1, c2 \in d : c1.name = c2.name => c1 = c2 }

\* Content of the file named by argv[1]: a parseable table or not.
Unparseable == [parse |-> FALSE, cols |-> {}]
FileContents == { [parse |-> TRUE, cols |-> d] : d \in Datasets } \cup {Unparseable}

\* len(sys.argv): program name plus zero, one or two arguments
Argcs == {1, 2, 3}

\* os.getenv("OPENAI_API_KEY"): unset (None), empty, or a key
KeyUnset == "<unset>"
ApiKeys == {KeyUnset, "", "sk-key"}

\* ------------------------------------------------------------ JSON bodies
EmptyDict == [k \in {} |-> ""]

\* dict.get(key, default)
Get(d, k, default) == IF k \in DOMAIN d THEN d[k] ELSE default

BodyNoChoices      == EmptyDict
BodyEmptyChoices   == [choices |-> <<>>]
BodyNoMessage      == [choices |-> <<EmptyDict>>]
BodyNoContent      == [choices |-> <<[message |-> EmptyDict]>>]
BodyContent(s)     == [choices |-> <<[message |-> [content |-> s]]>>]

Narratives == {"", "story"}

\* Python's None, which response.json() gives for a JSON null; it is not a
\* string and differs from every narrative
PyNone == "<None>"

HttpResp(st, isJson, b) == [kind |-> "http", status |-> st, json |-> isJson, body |-> b]
TransportError == [kind |-> "error", status |-> 0, json |-> FALSE, body |-> EmptyDict]

\* What requests.post can produce in one attempt.
ResponseList ==
    << TransportError,
       HttpResp(500, TRUE, EmptyDict),
       HttpResp(201, TRUE, BodyContent("story")),
       HttpResp(200, FALSE, EmptyDict),
       HttpResp(200, TRUE, BodyNoChoices),
       HttpResp(200, TRUE, BodyEmptyChoices),
       HttpResp(200, TRUE, BodyNoMessage),
       HttpResp(200, TRUE, BodyNoContent),
       HttpResp(200, TRUE, BodyContent("")),
       HttpResp(200, TRUE, BodyContent(PyNone)),
       HttpResp(200, TRUE, BodyContent("story")) >>

NoResp == [kind |-> "none", status |-> 0, json |-> FALSE, body |-> EmptyDict]

\* ------------------------------------------------------------------ chat()
Return(v) == [ok |-> TRUE,  value |-> v,  exc |-> ""]
Raise(e)  == [ok |-> FALSE, value |-> "", exc |-> e]

\* response.json().get("choices", [{}])[0].get("message", {}).get("content", "")
ExtractContent(resp) ==
    IF ~resp.json THEN Raise("JSONDecodeError")
    ELSE LET choices == Get(resp.body, "choices", <<EmptyDict>>)
         IN  IF Len(choices) = 0 THEN Raise("IndexError")
             ELSE Return(Get(Get(choices[1], "message", EmptyDict), "content", ""))

\* one call of chat(): the POST, the status test, the extraction or the raise
Chat(resp) ==
    IF resp.kind = "error" THEN Raise("ConnectionError")
    ELSE IF resp.status = StatusOK THEN ExtractContent(resp)
    ELSE Raise("APIError")

\* variant: the stop test is off by one and allows a further attempt
StopAfterAttemptLate(attemptNumber) == attemptNumber > MaxAttempts

\* stop=stop_after_attempt(3): stop once attempt_number >= 3
StopAfterAttempt(attemptNumber) == attemptNumber >= MaxAttempts

\* variant: only an unset variable is rejected (api_key is None)
KeyMissingNoneOnly(key) == key = KeyUnset

\* if not api_key
KeyMissing(key) == key = KeyUnset \/ key = ""

\* ------------------------------------------------------------ analysis
\* df.corr(numeric_only=True): labelled by the numeric columns
Corr(cols) == { c \in cols : c.numeric }
\* corr.empty
CorrEmpty(cols) == Corr(cols) = {}
\* variant: the column name is matched without regard to case
HasAverageRatingAnyCase(cols) ==
    \E c \in cols : c.name \in {"average_rating", "Average_Rating"}

\* 'average_rating' in df.columns
HasAverageRating(cols) == \E c \in cols : c.name = "average_rating"

\* ------------------------------------------------------------ the report
\* values of sys.argv[1]: a name with an extension and one without
Filenames == {"data.csv", "data"}

\* os.path.splitext(os.path.basename(filename))[0]
FolderOf(f) == CASE f = "data.csv" -> "data"
                 [] f = "data"     -> "data"

Part(k, t, c) == [kind |-> k, text |-> t, cols |-> c]
Embed1 == Part("embed", "![Correlation Heatmap](chart1.png)", {})
Embed2 == Part("embed", "![Rating Distribution](chart2.png)", {})
NoFile == << >>

\* variant: the heatmap embed follows the dataset, not the file on disk
ReportContentByDataset(fname, cols, narrative, chart1Exists, chart2Exists) ==
    << Part("text", "# Automated Data Analysis Report", {}),
       Part("dataset", fname, {}),
       Part("text", "### Summary Statistics", {}),
       Part("table", "summary", cols),
       Part("text", "### Missing Values", {}),
       Part("table", "missing_count", cols),
       Part("text", "### Correlation Matrix", {}),
       Part("table", "correlation", Corr(cols)),
       Part("text", "### AI-Generated Insights", {}),
       Part("insights", narrative, {}),
       Part("text", "### Visualizations", {}) >>
    \o (IF ~CorrEmpty(cols) THEN <<Embed1>> ELSE << >>)
    \o (IF chart2Exists THEN <<Embed2>> ELSE << >>)

\* the sequence of f.write calls of generate_report
ReportContent(fname, cols, narrative, chart1Exists, chart2Exists) ==
    << Part("text", "# Automated Data Analysis Report", {}),
       Part("dataset", fname, {}),
       Part("text", "### Summary Statistics", {}),
       Part("table", "summary", cols),
       Part("text", "### Missing Values", {}),
       Part("table", "missing_count", cols),
       Part("text", "### Correlation Matrix", {}),
       Part("table", "correlation", Corr(cols)),
       Part("text", "### AI-Generated Insights", {}),
       Part("insights", narrative, {}),
       Part("text", "### Visualizations", {}) >>
    \o (IF chart1Exists THEN <<Embed1>> ELSE << >>)
    \o (IF chart2Exists THEN <<Embed2>> ELSE << >>)

\* f.write calls of generate_report that precede f.write(insights + "\n\n")
WritesBeforeInsights == 9

\* insights + "\n\n" raises TypeError unless insights is a string
IsStr(v) == v # PyNone

\* encodings the standard output of the process may have
StdoutEncodings == {"utf-8", "latin-1", "ascii"}

\* the completion message holds characters above U+007F (all below U+0100)
CanPrintCompletion(enc) == enc # "ascii"

\* variant: the file is opened in append mode
OpenAppend(old, new) == old \o new

\* open(readme_path, "w"): the new content replaces the old
OpenWrite(old, new) == new

\* ------------------------------------------------------------------ state
VARIABLES
    run,        \* index of the current run of the program
    pc,         \* position of main
    argc,       \* len(sys.argv)
    filename,   \* sys.argv[1]
    apiKey,     \* value of OPENAI_API_KEY in the environment
    file,       \* content of the file argv[1]
    fs,         \* the output folder on disk
    fs0,        \* the output folder as it was when this run started
    df,         \* columns of the loaded table ({} before load_data)
    attempts,   \* requests.post calls made by this run
    slept,      \* time units slept between attempts
    lastResp,   \* response of the latest attempt
    insights,   \* value returned by get_openai_response
    printed,    \* messages printed by this run (stdout and the traceback)
    outcome,    \* how the run ended ("running" until then)
    wrote,      \* what this run created or wrote in the output folder
    tried,      \* chart blocks of generate_visualizations this run entered
    prevReport  \* README.md content the previous run wrote (NoFile if none)

vars == << run, pc, argc, filename, apiKey, file, fs, fs0, df, attempts, slept, lastResp,
           insights, printed, outcome, wrote, tried, prevReport >>

Disk(folder, c1, c2, readme) ==
    [folder |-> folder, chart1 |-> c1, chart2 |-> c2, readme |-> readme]

\* variant: only a missing argument is rejected
ArgcTooFew(n) == n < ExpectedArgc

\* len(sys.argv) != 2
ArgcWrong(n) == n # ExpectedArgc

\* what is at the path of the output folder: nothing, a directory, or
\* something that is not a directory (a regular file)
FolderKinds == {"absent", "dir", "file"}

\* the folder is absent, or the path is taken by a regular file, or the
\* folder was left by earlier runs on some dataset with any of the chart
\* files and no report yet
InitDisks ==
    {Disk("absent", FALSE, FALSE, NoFile), Disk("file", FALSE, FALSE, NoFile)}
      \cup { Disk("dir", c1, c2, NoFile) : c1, c2 \in BOOLEAN }

\* argv[1] is read only when the argument count is right; when argv[1] has
\* no extension the dataset and the output folder are the same path, so a
\* table can be read from it only if that path holds a regular file
InputsConsistent(n, name, content, disk) ==
    /\ ArgcWrong(n) => name = "data.csv"
    /\ (name = FolderOf(name) /\ content.parse) => disk.folder = "file"

\* exit status seen by the caller of the process
ExitStatus(o) == IF o = "complete" THEN 0 ELSE 1

Init ==
    /\ run = 1
    /\ pc = "main"
    /\ argc \in Argcs
    /\ apiKey \in ApiKeys
    /\ file \in FileContents
    /\ fs \in InitDisks
    /\ fs0 = fs
    /\ filename \in Filenames
    /\ InputsConsistent(argc, filename, file, fs)
    /\ df = {}
    /\ attempts = 0
    /\ slept = 0
    /\ lastResp = NoResp
    /\ insights = ""
    /\ printed = << >>
    /\ outcome = "running"
    /\ wrote = {}
    /\ tried = {}
    /\ prevReport = NoFile

\* process exit: sys.exit(1), an uncaught exception, or return from main
Exit(o, msg) ==
    /\ pc' = "exited"
    /\ outcome' = o
    /\ printed' = Append(printed, msg)

\* main: the argument count test
CheckArgs ==
    /\ pc = "main"
    /\ IF ArgcWrong(argc)
         THEN Exit("usage", "Usage: uv run autolysis.py <dataset.csv>")
         ELSE /\ pc' = "load"
              /\ UNCHANGED << outcome, printed >>
    /\ UNCHANGED << fs0, tried, run, argc, filename, apiKey, file, fs, df, attempts, slept,
                    lastResp, insights, wrote, prevReport >>

\* load_data: read_csv succeeds and the shape is printed, or any exception
\* is caught, printed and followed by sys.exit(1)
LoadData ==
    /\ pc = "load"
    /\ IF file.parse
         THEN /\ df' = file.cols
              /\ printed' = Append(printed, "Loaded dataset")
              /\ pc' = "analyze"
              /\ UNCHANGED outcome
         ELSE /\ df' = df
              /\ Exit("load_error", "Error loading data")
    /\ UNCHANGED << fs0, tried, run, argc, filename, apiKey, file, fs, attempts, slept,
                    lastResp, insights, wrote, prevReport >>

\* analyze_data: pure, its three tables are functions of df
AnalyzeData ==
    /\ pc = "analyze"
    /\ pc' = "makedirs"
    /\ UNCHANGED << fs0, tried, run, argc, filename, apiKey, file, fs, df, attempts, slept, lastResp,
                    insights, printed, outcome, wrote, prevReport >>

\* folder = FolderOf(filename); os.makedirs(folder, exist_ok=True): creates
\* the directory, accepts an existing one, and raises FileExistsError when
\* the path exists and is not a directory; the error is not caught
MakeDirs ==
    /\ pc = "makedirs"
    /\ IF fs.folder = "file"
         THEN /\ UNCHANGED << fs, wrote >>
              /\ Exit("makedirs_error", "Traceback")
         ELSE /\ fs' = [fs EXCEPT !.folder = "dir"]
              /\ wrote' = IF fs.folder = "dir" THEN wrote ELSE wrote \cup {"folder"}
              /\ pc' = "chart1"
              /\ UNCHANGED << outcome, printed >>
    /\ UNCHANGED << fs0, tried, run, argc, filename, apiKey, file, df, attempts, slept,
                    lastResp, insights, prevReport >>

\* outcomes of rendering and saving one figure
RenderOutcomes == {"saved", "raised"}

\* generate_visualizations, chart 1: the heatmap block runs only when the
\* correlation matrix is not empty; an exception raised in the block is not
\* caught anywhere and ends the process
Chart1 ==
    /\ pc = "chart1"
    /\ tried' = IF ~CorrEmpty(df) THEN tried \cup {"chart1"} ELSE tried
    /\ IF ~CorrEmpty(df)
         THEN \E r \in RenderOutcomes :
                IF r = "saved"
                  THEN /\ fs' = [fs EXCEPT !.chart1 = TRUE]
                       /\ wrote' = wrote \cup {"chart1.png"}
                       /\ pc' = "chart2"
                       /\ UNCHANGED << outcome, printed >>
                  ELSE /\ UNCHANGED << fs, wrote >>
                       /\ Exit("chart1_error", "Traceback")
         ELSE /\ pc' = "chart2"
              /\ UNCHANGED << fs, wrote, outcome, printed >>
    /\ UNCHANGED << fs0, run, argc, filename, apiKey, file, df, attempts, slept, lastResp,
                    insights, prevReport >>

\* generate_visualizations, chart 2: the histogram block runs only when the
\* table has a column named average_rating
Chart2 ==
    /\ pc = "chart2"
    /\ tried' = IF HasAverageRating(df) THEN tried \cup {"chart2"} ELSE tried
    /\ IF HasAverageRating(df)
         THEN \E r \in RenderOutcomes :
                IF r = "saved"
                  THEN /\ fs' = [fs EXCEPT !.chart2 = TRUE]
                       /\ wrote' = wrote \cup {"chart2.png"}
                       /\ pc' = "getkey"
                       /\ UNCHANGED << outcome, printed >>
                  ELSE /\ UNCHANGED << fs, wrote >>
                       /\ Exit("chart2_error", "Traceback")
         ELSE /\ pc' = "getkey"
              /\ UNCHANGED << fs, wrote, outcome, printed >>
    /\ UNCHANGED << fs0, run, argc, filename, apiKey, file, df, attempts, slept, lastResp,
                    insights, prevReport >>

\* get_openai_response up to the definition of chat: the credential test
CheckApiKey ==
    /\ pc = "getkey"
    /\ IF KeyMissing(apiKey)
         THEN Exit("no_key", "Error: OPENAI_API_KEY not set.")
         ELSE /\ pc' = "chat"
              /\ UNCHANGED << outcome, printed >>
    /\ UNCHANGED << fs0, tried, run, argc, filename, apiKey, file, fs, df, attempts, slept,
                    lastResp, insights, wrote, prevReport >>

\* variant: once the attempts are used up the error is swallowed and an
\* empty narrative is returned
ChatAttemptSwallow ==
    /\ pc = "chat"
    /\ \E i \in DOMAIN ResponseList :
         LET resp == ResponseList[i]
             r    == Chat(resp)
         IN  /\ attempts' = attempts + 1
             /\ lastResp' = resp
             /\ IF r.ok
                  THEN /\ insights' = r.value
                       /\ pc' = "report"
                       /\ UNCHANGED slept
                  ELSE IF StopAfterAttempt(attempts + 1)
                  THEN /\ insights' = ""
                       /\ pc' = "report"
                       /\ UNCHANGED slept
                  ELSE /\ slept' = slept + WaitFixed
                       /\ pc' = "chat"
                       /\ UNCHANGED insights
    /\ UNCHANGED << fs0, tried, run, argc, filename, apiKey, file, fs, df, wrote,
                    prevReport, outcome, printed >>

\* one attempt of the retried chat(): on return the value is the narrative;
\* on an exception the retry stops after MaxAttempts attempts and the error
\* leaves get_openai_response and main uncaught, otherwise it sleeps
\* WaitFixed and tries again
ChatAttempt ==
    /\ pc = "chat"
    /\ \E i \in DOMAIN ResponseList :
         LET resp == ResponseList[i]
             r    == Chat(resp)
         IN  /\ attempts' = attempts + 1
             /\ lastResp' = resp
             /\ IF r.ok
                  THEN /\ insights' = r.value
                       /\ pc' = "report"
                       /\ UNCHANGED << slept, outcome, printed >>
                  ELSE IF StopAfterAttempt(attempts + 1)
                  THEN /\ UNCHANGED << insights, slept >>
                       /\ Exit("retry_error", "Traceback")
                  ELSE /\ slept' = slept + WaitFixed
                       /\ pc' = "chat"
                       /\ UNCHANGED << insights, outcome, printed >>
    /\ UNCHANGED << fs0, tried, run, argc, filename, apiKey, file, fs, df, wrote, prevReport >>

\* generate_report, then the completion message and the return from main.
\* README.md is opened for writing and the parts are written in order; a
\* narrative that is not a string raises TypeError at its write, which
\* leaves the file with the parts written so far and ends the process.
\* The completion message raises UnicodeEncodeError on a standard output
\* that cannot encode it, after the report was written in full.
GenerateReport ==
    /\ pc = "report"
    /\ LET full == ReportContent(filename, df, insights, fs.chart1, fs.chart2)
       IN  IF ~IsStr(insights)
             THEN /\ fs' = [fs EXCEPT !.readme =
                              OpenWrite(fs.readme, SubSeq(full, 1, WritesBeforeInsights))]
                  /\ wrote' = wrote \cup {"README.md"}
                  /\ Exit("report_error", "Traceback")
             ELSE /\ fs' = [fs EXCEPT !.readme = OpenWrite(fs.readme, full)]
                  /\ wrote' = wrote \cup {"README.md"}
                  /\ \E enc \in StdoutEncodings :
                        IF CanPrintCompletion(enc)
                          THEN Exit("complete", "Analysis complete")
                          ELSE Exit("print_error", "Traceback")
    /\ UNCHANGED << fs0, tried, run, argc, filename, apiKey, file, df, attempts, slept, lastResp,
                    insights, prevReport >>

\* the program is started again with the same argument; the file may have
\* been edited in between, the output folder is as the last run left it
StartRun ==
    /\ pc = "exited"
    /\ run < MaxRuns
    /\ run' = run + 1
    /\ pc' = "main"
    /\ argc' \in Argcs
    /\ apiKey' \in ApiKeys
    /\ df' = {}
    /\ attempts' = 0
    /\ slept' = 0
    /\ lastResp' = NoResp
    /\ insights' = ""
    /\ printed' = << >>
    /\ outcome' = "running"
    /\ wrote' = {}
    /\ tried' = {}
    /\ file' \in FileContents
    /\ filename' \in Filenames
    /\ InputsConsistent(argc', filename', file', fs)
    /\ fs0' = fs
    /\ prevReport' = IF "README.md" \in wrote THEN fs.readme ELSE NoFile
    /\ fs' = fs

Next ==
    \/ CheckArgs
    \/ LoadData
    \/ AnalyzeData
    \/ MakeDirs
    \/ Chart1
    \/ Chart2
    \/ CheckApiKey
    \/ ChatAttempt
    \/ GenerateReport
    \/ StartRun

Spec == Init /\ [][Next]_vars

TypeOK ==
    /\ run \in 1..MaxRuns
    /\ attempts \in 0..MaxAttempts
    /\ fs.folder \in FolderKinds
    /\ filename \in Filenames

\* =================================================================== claims
Last(seq) == seq[Len(seq)]

\* an attempt the code treats as failed: no response, a status other than
\* 200, or a 200 whose body cannot be decoded or indexed
AttemptFailed(resp) ==
    \/ resp.kind = "error"
    \/ resp.status # 200
    \/ ~resp.json
    \/ ("choices" \in DOMAIN resp.body /\ resp.body.choices = << >>)

\* a failed attempt in the words of the retry policy: a transport error or a
\* status outside 200..299
NonSuccessResponse(resp) ==
    \/ resp.kind = "error"
    \/ resp.status \notin 200..299

\* the retry discipline of get_openai_response, for a given notion of a
\* failed attempt
RetryDiscipline(Failed(_)) ==
    /\ attempts <= 3
    /\ attempts > 0 =>
         /\ (Failed(lastResp) /\ attempts < 3) =>
               (pc = "chat" /\ outcome = "running")
         /\ (Failed(lastResp) /\ attempts = 3) =>
               (pc = "exited" /\ outcome = "retry_error" /\ ExitStatus(outcome) # 0)
         /\ ~Failed(lastResp) =>
               /\ pc \in {"report", "exited"}
               /\ outcome # "retry_error"
               /\ \A t \in Narratives \cup {PyNone} :
                    lastResp.body = BodyContent(t) => insights = t

\* C1 (as stated): at most 3 attempts per run; an attempt that ends in a
\* non-2xx response or a transport error is retried while fewer than 3 were
\* made, any other attempt ends the retrying and returns the narrative, and
\* a failed 3rd attempt aborts the run.
C1_Original == RetryDiscipline(NonSuccessResponse)

\* C1 (amended): at most 3 attempts per run; an attempt that ends in a
\* transport error, in a status other than 200, or in an exception raised
\* while extracting the content of a 200 response is retried while fewer
\* than 3 were made; the first attempt that returns ends the retrying and
\* returns the narrative; a failed 3rd attempt leaves the run aborted with
\* no 4th attempt.
C1_RetryBound == RetryDiscipline(AttemptFailed)

\* three attempts were made, the third after two sleeps, and the run aborted
C1_Witness ==
    /\ attempts = 3
    /\ slept = 4
    /\ outcome = "retry_error"
    /\ lastResp.status = 201

\* a body of a 200 response that lacks one of the expected fields
LacksField(body) ==
    \/ "choices" \notin DOMAIN body
    \/ body.choices = << >>
    \/ "message" \notin DOMAIN body.choices[1]
    \/ "content" \notin DOMAIN body.choices[1].message

\* C2: a 200 response whose JSON body lacks an expected field makes
\* get_openai_response return the empty string: nothing is raised, nothing
\* is retried and the run goes on to the report.
C2_LenientParsing ==
    ( /\ attempts > 0
      /\ lastResp.kind = "http"
      /\ lastResp.status = 200
      /\ lastResp.json
      /\ LacksField(lastResp.body) )
    => ( /\ pc \in {"report", "exited"}
         /\ outcome \in {"running", "complete", "print_error"}
         /\ pc = "exited" => "README.md" \in wrote
         /\ insights = "" )

\* the table has at least one numeric column
SomeNumeric(cols) == \E c \in cols : c.numeric
\* the table has a column whose name is exactly average_rating
SomeAverageRating(cols) == \E c \in cols : c.name = "average_rating"

\* C3: the two chart steps are independent: when chart1 fails chart2 is
\* still attempted if the table has an average_rating column, and a failure
\* of chart2 leaves chart1 written.
C3_ChartsIndependent ==
    /\ ("chart1" \in tried /\ "chart1.png" \notin wrote /\ SomeAverageRating(df))
         => "chart2" \in tried
    /\ ("chart2" \in tried /\ "chart2.png" \notin wrote /\ SomeNumeric(df))
         => ("chart1.png" \in wrote /\ fs.chart1)

\* C4: with OPENAI_API_KEY unset or empty no HTTP request is ever issued,
\* the run never gets past the credential test, and it ends with status 1
\* after printing a diagnostic (the credential message when it got that far).
C4_NoKeyNoRequest ==
    (apiKey = KeyUnset \/ apiKey = "") =>
        /\ attempts = 0
        /\ pc \notin {"chat", "report"}
        /\ pc = "exited" =>
             /\ ExitStatus(outcome) = 1
             /\ printed # << >>
             /\ Last(printed) \in
                  { "Usage: uv run autolysis.py <dataset.csv>",
                    "Error loading data", "Traceback",
                    "Error: OPENAI_API_KEY not set." }
             /\ ( /\ argc = 2
                  /\ file.parse
                  /\ fs.folder = "dir"
                  /\ "chart1" \in tried => "chart1.png" \in wrote
                  /\ "chart2" \in tried => "chart2.png" \in wrote )
                  => Last(printed) = "Error: OPENAI_API_KEY not set."

\* an empty key reached the credential test and ended the run there
C4_Witness ==
    /\ apiKey = ""
    /\ pc = "exited"
    /\ outcome = "no_key"
    /\ wrote # {}

\* C5: when all 3 attempts fail the run ends with a non-zero status,
\* generate_report is not reached and README.md is as it was when the run
\* started.
C5_NoReportAfterExhaustion ==
    (attempts >= 3 /\ AttemptFailed(lastResp)) =>
        /\ attempts = 3
        /\ pc = "exited"
        /\ ExitStatus(outcome) # 0
        /\ "README.md" \notin wrote
        /\ fs.readme = fs0.readme

\* the retries ran out in a run that found an earlier report on disk
C5_Witness ==
    /\ attempts = 3
    /\ outcome = "retry_error"
    /\ fs0.readme # NoFile
    /\ fs.readme = fs0.readme

\* C6: a run that ends before the Analyzer (wrong argument count, or a file
\* that cannot be read or parsed) exits with status 1 after printing one
\* message and leaves no trace: the disk is as it was, nothing was created
\* or written, no HTTP request was made.
C6_EarlyExitNoOutput ==
    (pc = "exited" /\ (argc # 2 \/ ~file.parse)) =>
        /\ ExitStatus(outcome) = 1
        /\ printed \in { <<"Usage: uv run autolysis.py <dataset.csv>">>,
                         <<"Error loading data">> }
        /\ fs = fs0
        /\ wrote = {}
        /\ attempts = 0

\* a load failure in a run that found no output folder and left none
C6_Witness ==
    /\ pc = "exited"
    /\ argc = 2
    /\ ~file.parse
    /\ fs.folder = "absent"

\* positions of a part in a report
Positions(report, part) == { i \in DOMAIN report : report[i] = part }

\* C7: in a README.md this run wrote the chart embeds come last, after the
\* narrative, chart1 before chart2; an embed is there only if the chart's
\* file is on disk, and once the Visualizations heading is written it is
\* there if and only if the file is on disk, whoever wrote the file.
C7_EmbedsFollowDisk ==
    ("README.md" \in wrote) =>
        LET r  == fs.readme
            p1 == Positions(r, Embed1)
            p2 == Positions(r, Embed2)
            pn == { i \in DOMAIN r : r[i].kind = "insights" }
            pv == Positions(r, Part("text", "### Visualizations", {}))
        IN  /\ p1 # {} => fs.chart1
            /\ p2 # {} => fs.chart2
            /\ pv # {} => ((p1 # {}) = fs.chart1 /\ (p2 # {}) = fs.chart2)
            /\ pv # {} => Cardinality(pn) = 1
            /\ (pc = "exited" /\ outcome \in {"complete", "print_error"}) => pv # {}
            /\ Cardinality(p1) <= 1 /\ Cardinality(p2) <= 1
            /\ \A i \in p1 \cup p2 : \A n \in pn : n < i
            /\ \A i \in p1 \cup p2 : pn # {}
            /\ \A i \in p1 : \A j \in p2 : i < j
            /\ \A i \in p1 \cup p2 : \A k \in DOMAIN r :
                   k > i => r[k].kind = "embed"

\* a report embeds a chart this run did not write, next to one it did
C7_Witness ==
    /\ pc = "exited"
    /\ outcome = "complete"
    /\ "chart1.png" \notin wrote
    /\ "chart2.png" \in wrote
    /\ Len(fs.readme) = 13

\* C8: chart1 is written only for a table with a numeric column and chart2
\* only for a table with a column named exactly average_rating; a chart
\* whose condition is unmet is skipped without a message or an error and
\* the run goes on.
C8_ChartConditions ==
    /\ "chart1.png" \in wrote => SomeNumeric(df)
    /\ "chart2.png" \in wrote => SomeAverageRating(df)
    /\ "chart1" \in tried => SomeNumeric(df)
    /\ "chart2" \in tried => SomeAverageRating(df)
    /\ outcome = "chart1_error" => SomeNumeric(df)
    /\ outcome = "chart2_error" => SomeAverageRating(df)
    /\ (pc = "getkey" /\ ~SomeNumeric(df) /\ ~SomeAverageRating(df)) =>
          (fs = [fs0 EXCEPT !.folder = "dir"] /\ printed = <<"Loaded dataset">>)

\* a table with neither a numeric column nor average_rating got through
\* the visualizer to the insight requester
C8_Witness ==
    /\ pc = "getkey"
    /\ df = {Col("Average_Rating", FALSE)}
    /\ wrote = {"folder"}

\* the report was written in full (generate_report returned)
FullReport(r) == Len(r) >= 11

\* C9: a run that wrote its report in full, following a run that wrote its
\* report in full on the same dataset with the same narrative string,
\* leaves a README.md identical to the one the earlier run wrote.
C9_RerunSameReport ==
    ( /\ "README.md" \in wrote
      /\ FullReport(fs.readme)
      /\ FullReport(prevReport)
      /\ prevReport[2].text = filename
      /\ prevReport[4].cols = df
      /\ prevReport[10].text = insights )
    => fs.readme = prevReport

\* two completed runs in a row, same table, same narrative, over a folder
\* that held a chart neither of them wrote
C9_Witness ==
    /\ run = 2
    /\ pc = "exited"
    /\ outcome = "complete"
    /\ FullReport(prevReport)
    /\ prevReport[4].cols = df
    /\ prevReport[10].text = insights
    /\ insights = "story"
    /\ fs.chart2
    /\ "chart2.png" \notin wrote

\* C10: a run ends in one of three ways: completion with status 0, a fatal
\* exit with status 1 on a wrong argument count, a load failure or a missing
\* credential, or an abort once the retries are used up; and it ends with
\* status 0 only after a successful response and the writing of README.md.
C10_ThreeEndings ==
    pc = "exited" =>
        /\ \/ (outcome = "complete" /\ ExitStatus(outcome) = 0)
           \/ (outcome \in {"usage", "load_error", "no_key"}
                 /\ ExitStatus(outcome) = 1)
           \/ (outcome = "retry_error" /\ attempts = 3)
        /\ ExitStatus(outcome) = 0 =>
             /\ "README.md" \in wrote
             /\ attempts > 0
             /\ ~AttemptFailed(lastResp)

====
